---------------------------- MODULE Spec2Model ----------------------------
(***************************************************************************)
(* Exam-hall seating generator (backend-v2/services/seatingGenerator.js)   *)
(* and its POST /api/seating/generate route.                               *)
(*                                                                         *)
(* One request is modelled from the moment the route handler starts until  *)
(* it has answered.  The engine's room loop is modelled seat by seat: one  *)
(* step per selected grid cell, one step per finished room.                *)
(*                                                                         *)
(* A student is identified by its 1-based rank in the list returned by     *)
(* Student.find(...).sort({registerNumber: 1}); null is 0.                 *)
(*                                                                         *)
(* POST /api/auth/register (backend-v2/routes/authRoutes.js) is modelled   *)
(* with one step per await of its handler, for concurrent requests.        *)
(***************************************************************************)
EXTENDS Integers, Sequences, FiniteSets

VARIABLES
  examOk,             \* the request body carries examName and examDate
  students,           \* the fetched students, sorted by registerNumber (<<>> before the fetch)
  rooms,              \* the fetched rooms, sorted in place by generateSeating
  pc,                 \* position of the request
  studentsToSeat,     \* ids handed to the engine
  unassignedStudents, \* ids beyond the total capacity
  studentsPerRoom,    \* target occupancy per room
  pools,              \* the four pools, each {students, index}
  roomYearLock,       \* roomIdx -> 0 (unset), 1 or 2
  roomIdx,            \* index of the room being filled (1-based)
  layout,             \* grid of the room being filled: position -> id or 0
  seatsToFill,        \* positions selected for the room being filled
  pos,                \* next row-major position the cell loop examines
  studentsPlaced,
  lastWasCSE,
  roomSeatingData,    \* finished rooms
  seatings,           \* saved Seating documents
  response,           \* HTTP status answered by the route, 0 while pending
  errorMessage,       \* error.message of a 500 answer
  users,              \* the User collection, in insertion order
  reg                 \* the POST /api/auth/register requests: request -> its state

vars == <<examOk, students, rooms, pc, studentsToSeat, unassignedStudents,
          studentsPerRoom, pools, roomYearLock, roomIdx, layout, seatsToFill,
          pos, studentsPlaced, lastWasCSE, roomSeatingData, seatings, response,
          errorMessage, users, reg>>

authVars == <<users, reg>>

-----------------------------------------------------------------------------
(* Bounds and input domains *)

MaxStudents == 4

\* Registration requests in flight and the addresses they may carry.
MaxRequests == 3
Requests == 1..MaxRequests
Emails == {"a@example.com", "b@example.com"}

\* A request that has not been sent yet.
IdleRequest == [pc |-> "idle", email |-> "", secretOk |-> FALSE, userCount |-> 0,
                status |-> 0, role |-> ""]

Branches == {"CSE", "ECE"}
Years == {1, 2, 3}

LookAhead == 5
DefaultCols == 10
Rows60 == 6
Cols60 == 10
Rows45 == 5
Cols45 == 9

\* Rooms that the Room collection may hold (name, capacity, type).
RoomDB ==
  { [id |-> 1, name |-> <<"R", "1">>,      capacity |-> 1,  type |-> "60"],
    [id |-> 2, name |-> <<"R", "2">>,      capacity |-> 3,  type |-> "custom"],
    [id |-> 3, name |-> <<"R", "1", "0">>, capacity |-> 0,  type |-> "custom"] }

Min(a, b) == IF a < b THEN a ELSE b
Max(a, b) == IF a > b THEN a ELSE b

RECURSIVE SeqSum(_)
SeqSum(s) == IF s = <<>> THEN 0 ELSE Head(s) + SeqSum(Tail(s))

Range(s) == { s[i] : i \in DOMAIN s }

\* All orderings of the finite set S as sequences.
Perms(S) ==
  { p \in [1..Cardinality(S) -> S] : \A i, j \in 1..Cardinality(S) : i # j => p[i] # p[j] }

\* Sequences of distinct elements of S: what a query on S may return.
Selections(S) == UNION { Perms(T) : T \in SUBSET S }

StudentKinds == [branch : Branches, year : Years]
Rosters == UNION { [1..n -> StudentKinds] : n \in 0..MaxStudents }

\* A hall scenario: one custom room of ten seats (a 1 x 10 grid) and a class list
\* of first- and second-year students, as many as the seats or two more.
HallRoom == [id |-> 5, name |-> <<"R", "5">>, capacity |-> 10, type |-> "custom"]

HallList ==
  << [branch |-> "CSE", year |-> 1], [branch |-> "ECE", year |-> 1],
     [branch |-> "CSE", year |-> 2], [branch |-> "ECE", year |-> 2],
     [branch |-> "CSE", year |-> 1], [branch |-> "ECE", year |-> 1],
     [branch |-> "CSE", year |-> 2], [branch |-> "ECE", year |-> 2],
     [branch |-> "CSE", year |-> 1], [branch |-> "CSE", year |-> 1],
     [branch |-> "CSE", year |-> 2], [branch |-> "ECE", year |-> 1] >>

\* A first-year class without CSE students: six ECE and one MECH student.
LabList ==
  << [branch |-> "ECE", year |-> 1], [branch |-> "ECE", year |-> 1],
     [branch |-> "ECE", year |-> 1], [branch |-> "MECH", year |-> 1],
     [branch |-> "ECE", year |-> 1], [branch |-> "ECE", year |-> 1],
     [branch |-> "ECE", year |-> 1] >>

HallRosters ==
  { SubSeq(HallList, 1, n) : n \in {HallRoom.capacity, Len(HallList)} } \cup {LabList}

\* Two more halls of the same kind, selected together with the first.
HallRoom6 == [id |-> 6, name |-> <<"R", "6">>, capacity |-> 10, type |-> "custom"]
HallRoom7 == [id |-> 7, name |-> <<"R", "7">>, capacity |-> 10, type |-> "custom"]

HallRoomLists == { <<HallRoom>>, <<HallRoom7, HallRoom, HallRoom6>> }

\* Branch values that occur in the scenarios; "" stands for no left neighbour.
AllBranches == {"CSE", "ECE", "MECH"}

\* A planning scenario: the two seeded room kinds (60 and 45 seats) and two
\* custom rooms, up to MaxPlanRooms of them selected, for a class list of up to
\* MaxPlanStudents students.
MaxPlanRooms == 2
MaxPlanStudents == 105

PlanRoomDB ==
  { [id |-> 1, name |-> <<"R", "1">>, capacity |-> 60, type |-> "60"],
    [id |-> 2, name |-> <<"R", "2">>, capacity |-> 45, type |-> "45"],
    [id |-> 3, name |-> <<"R", "3">>, capacity |-> 20, type |-> "custom"],
    [id |-> 4, name |-> <<"R", "4">>, capacity |-> 25, type |-> "custom"] }

PlanStudent == [branch |-> "CSE", year |-> 1]

-----------------------------------------------------------------------------
(* generateSeating: room sort *)

DigitVal(c) ==
  CASE c = "0" -> 0 [] c = "1" -> 1 [] c = "2" -> 2 [] c = "3" -> 3
    [] c = "4" -> 4 [] c = "5" -> 5 [] c = "6" -> 6 [] c = "7" -> 7
    [] c = "8" -> 8 [] c = "9" -> 9 [] OTHER -> -1

\* name.replace('R', ''): drops the first "R" of the name.
RECURSIVE ReplaceR(_)
ReplaceR(name) ==
  IF name = <<>> THEN <<>>
  ELSE IF Head(name) = "R" THEN Tail(name)
  ELSE <<Head(name)>> \o ReplaceR(Tail(name))

\* parseInt on a string of decimal digits: the value of its leading digits.
RECURSIVE ParseDigits(_, _)
ParseDigits(s, acc) ==
  IF s = <<>> \/ DigitVal(Head(s)) < 0 THEN acc
  ELSE ParseDigits(Tail(s), acc * 10 + DigitVal(Head(s)))

ParseInt(s) == ParseDigits(s, 0)

RoomNumber(room) == ParseInt(ReplaceR(room.name))

\* Lexical comparison of two names: -1, 0 or 1 (used only to state a faulty sort).
CharRank(c) == IF DigitVal(c) >= 0 THEN DigitVal(c) ELSE 100

RECURSIVE LexCompare(_, _)
LexCompare(a, b) ==
  IF a = <<>> /\ b = <<>> THEN 0
  ELSE IF a = <<>> THEN -1
  ELSE IF b = <<>> THEN 1
  ELSE IF CharRank(Head(a)) < CharRank(Head(b)) THEN -1
  ELSE IF CharRank(Head(a)) > CharRank(Head(b)) THEN 1
  ELSE LexCompare(Tail(a), Tail(b))

RoomCompareLexical(a, b) == LexCompare(a.name, b.name)

\* The comparator of rooms.sort: numA - numB.
RoomCompare(a, b) == RoomNumber(a) - RoomNumber(b)

\* Stable insertion of x into the sorted sequence s under RoomCompare.
RECURSIVE InsertRoom(_, _)
InsertRoom(x, s) ==
  IF s = <<>> THEN <<x>>
  ELSE IF RoomCompare(x, Head(s)) < 0 THEN <<x>> \o s
  ELSE <<Head(s)>> \o InsertRoom(x, Tail(s))

\* Array.prototype.sort with the comparator: a stable sort.
RECURSIVE SortRooms(_)
SortRooms(rs) ==
  IF rs = <<>> THEN <<>>
  ELSE InsertRoom(rs[Len(rs)], SortRooms(SubSeq(rs, 1, Len(rs) - 1)))

-----------------------------------------------------------------------------
(* generateSeating: overflow split and grouping *)

TotalCapacity(rs) == SeqSum([i \in DOMAIN rs |-> rs[i].capacity])

\* students.slice(0, totalCapacity) when totalStudents > totalCapacity, as ids.
SeatSlice(n, totalCapacity) ==
  IF n > totalCapacity THEN [i \in 1..totalCapacity |-> i] ELSE [i \in 1..n |-> i]

\* Faulty variant: the unassigned slice starts one student too late.
UnassignedSliceSkipsOne(n, totalCapacity) ==
  IF n > totalCapacity
  THEN [i \in 1..(n - totalCapacity - 1) |-> totalCapacity + 1 + i]
  ELSE <<>>

\* students.slice(totalCapacity) when totalStudents > totalCapacity, as ids.
UnassignedSlice(n, totalCapacity) ==
  IF n > totalCapacity THEN [i \in 1..(n - totalCapacity) |-> totalCapacity + i] ELSE <<>>

\* Keys of groupStudentsByBranchAndYear: the (branch, year) pairs present.
GroupKeys(st, ids) == { <<st[i].branch, st[i].year>> : i \in Range(ids) }

-----------------------------------------------------------------------------
(* Room capacity planning *)

\* The loop of distributeStudentsAcrossRooms from room i on: count is the base
\* share, plus one while remainder > 0, capped at the room's capacity.
RECURSIVE DistributeLoop(_, _, _, _)
DistributeLoop(i, remainder, basePerRoom, rs) ==
  IF i > Len(rs) THEN <<>>
  ELSE LET count == IF remainder > 0 THEN basePerRoom + 1 ELSE basePerRoom
       IN <<Min(count, rs[i].capacity)>>
            \o DistributeLoop(i + 1, IF remainder > 0 THEN remainder - 1 ELSE remainder,
                              basePerRoom, rs)

\* Faulty variant: the share of a room is not capped at its capacity.
distributeWithoutCap(totalStudents, rs) ==
  [i \in 1..Len(rs) |->
     totalStudents \div Len(rs) + (IF i <= totalStudents % Len(rs) THEN 1 ELSE 0)]

distributeStudentsAcrossRooms(totalStudents, rs) ==
  DistributeLoop(1, totalStudents % Len(rs), totalStudents \div Len(rs), rs)

\* Grid shape chosen by generateRoomLayoutsWithRules for a room.
RoomRows(room) ==
  IF room.type = "60" \/ room.capacity = 60 THEN Rows60
  ELSE IF room.type = "45" \/ room.capacity = 45 THEN Rows45
  ELSE (room.capacity + DefaultCols - 1) \div DefaultCols

RoomCols(room) ==
  IF room.type = "60" \/ room.capacity = 60 THEN Cols60
  ELSE IF room.type = "45" \/ room.capacity = 45 THEN Cols45
  ELSE DefaultCols

\* Double-precision arithmetic of  Math.floor(i * (totalSeats / studentsCount)).
\* A double carries 1 + MantissaBits significant bits; with the small integers
\* of a room the rounding errors are tracked exactly, as integer numerators.
MantissaBits == 52

RECURSIVE Pow2(_)
Pow2(n) == IF n = 0 THEN 1 ELSE 2 * Pow2(n - 1)

RECURSIVE Log2Floor(_)
Log2Floor(x) == IF x < 2 THEN 0 ELSE 1 + Log2Floor(x \div 2)

\* 2^n modulo m.
RECURSIVE Pow2Mod(_, _)
Pow2Mod(n, m) == IF n = 0 THEN 1 % m ELSE (2 * Pow2Mod(n - 1, m)) % m

\* interval = totalSeats / studentsCount, for totalSeats > studentsCount >= 1.
\* The quotient lies in [2^e, 2^(e+1)) and is rounded to the nearest multiple
\* of 2^-s, s = MantissaBits - e (ties to even).  The value is the integer rho
\* with  interval = totalSeats / studentsCount + rho / (studentsCount * 2^s).
IntervalError(totalSeats, studentsCount) ==
  LET e == Log2Floor(totalSeats \div studentsCount)
      s == MantissaBits - e
      r == (totalSeats * Pow2Mod(s, studentsCount)) % studentsCount
      odd == ((totalSeats * Pow2Mod(s, 2 * studentsCount)) % (2 * studentsCount))
               \div studentsCount
  IN IF 2 * r < studentsCount THEN 0 - r
     ELSE IF 2 * r > studentsCount THEN studentsCount - r
     ELSE IF odd = 0 THEN 0 - r ELSE studentsCount - r

\* Math.floor(i * interval).  The product is rounded to a double before the
\* floor: when i * totalSeats / studentsCount is not an integer the roundings
\* are far too small to move the floor; when it is an integer m and interval
\* was rounded down, the product lies below m and rounds to m only if it is
\* within half a unit in the last place of m.
FloorTimesInterval(i, totalSeats, studentsCount) ==
  LET m == (i * totalSeats) \div studentsCount
      rho == IntervalError(totalSeats, studentsCount)
      e == Log2Floor(totalSeats \div studentsCount)
      k == Log2Floor(m)
      halfUlp == IF m = Pow2(k) THEN studentsCount * Pow2(k - 1) ELSE studentsCount * Pow2(k)
  IN IF i = 0 \/ (i * totalSeats) % studentsCount # 0 \/ rho >= 0 THEN m
     ELSE IF i * (0 - rho) * Pow2(e + 1) <= halfUlp THEN m
     ELSE m - 1

\* Faulty variant: the students fill the grid from the top, the gaps come last.
calculateSeatPositionsTopFill(rows, cols, studentsCount) ==
  0..(Min(rows * cols, studentsCount) - 1)

calculateSeatPositions(rows, cols, studentsCount) ==
  LET totalSeats == rows * cols
  IN IF studentsCount >= totalSeats THEN 0..(totalSeats - 1)
     ELSE { FloorTimesInterval(i, totalSeats, studentsCount) : i \in 0..(studentsCount - 1) }

EmptyLayout(room) == [p \in 0..(RoomRows(room) * RoomCols(room) - 1) |-> 0]

-----------------------------------------------------------------------------
(* Pools *)

PoolKeys == {"Year1-CSE", "Year1-NonCSE", "Year2-CSE", "Year2-NonCSE"}

CsePoolKey(year) == IF year = 1 THEN "Year1-CSE" ELSE "Year2-CSE"
NonCsePoolKey(year) == IF year = 1 THEN "Year1-NonCSE" ELSE "Year2-NonCSE"

\* Members of each pool: the filters on year === 1 / 2 and branch === 'CSE'.
PoolMembers(st, ids, key) ==
  { i \in Range(ids) :
      CASE key = "Year1-CSE"    -> st[i].year = 1 /\ st[i].branch = "CSE"
        [] key = "Year1-NonCSE" -> st[i].year = 1 /\ st[i].branch # "CSE"
        [] key = "Year2-CSE"    -> st[i].year = 2 /\ st[i].branch = "CSE"
        [] key = "Year2-NonCSE" -> st[i].year = 2 /\ st[i].branch # "CSE" }

\* shuffleArray leaves a pool in any order of its members: the possible pools.
ShuffledPools(st, ids) ==
  { [k \in PoolKeys |->
       [students |-> CASE k = "Year1-CSE" -> c1 [] k = "Year1-NonCSE" -> n1
                       [] k = "Year2-CSE" -> c2 [] k = "Year2-NonCSE" -> n2,
        index |-> 0]] :
      c1 \in Perms(PoolMembers(st, ids, "Year1-CSE")),
      n1 \in Perms(PoolMembers(st, ids, "Year1-NonCSE")),
      c2 \in Perms(PoolMembers(st, ids, "Year2-CSE")),
      n2 \in Perms(PoolMembers(st, ids, "Year2-NonCSE")) }

PoolExhausted(pool) == pool.index >= Len(pool.students)

\* Faulty variant: the found student is copied to the front, the front one is lost.
SwapSeqCopy(s, i, j) == [s EXCEPT ![i] = s[j]]

SwapSeq(s, i, j) == [s EXCEPT ![i] = s[j], ![j] = s[i]]

\* Faulty variant: the whole rest of the pool is searched for another branch.
getStudentFromPoolWholePool(pool, leftBranch) ==
  IF PoolExhausted(pool) THEN [student |-> 0, pool |-> pool]
  ELSE
    LET differing == { i \in pool.index..(Len(pool.students) - 1) :
                         students[pool.students[i + 1]].branch # leftBranch }
    IN IF leftBranch # "" /\ differing # {}
       THEN LET i == CHOOSE k \in differing : \A m \in differing : k <= m
            IN [student |-> pool.students[i + 1],
                pool |-> [students |-> SwapSeq(pool.students, pool.index + 1, i + 1),
                          index |-> pool.index + 1]]
       ELSE [student |-> pool.students[pool.index + 1],
             pool |-> [pool EXCEPT !.index = pool.index + 1]]

\* Faulty variant: the found student is returned without the swap to the front.
getStudentFromPoolNoSwap(pool, leftBranch) ==
  IF PoolExhausted(pool) THEN [student |-> 0, pool |-> pool]
  ELSE
    LET lo == pool.index
        hi == Min(pool.index + LookAhead, Len(pool.students)) - 1
        differing == { i \in lo..hi : students[pool.students[i + 1]].branch # leftBranch }
    IN IF leftBranch # "" /\ differing # {}
       THEN LET i == CHOOSE k \in differing : \A m \in differing : k <= m
            IN [student |-> pool.students[i + 1],
                pool |-> [pool EXCEPT !.index = pool.index + 1]]
       ELSE [student |-> pool.students[pool.index + 1],
             pool |-> [pool EXCEPT !.index = pool.index + 1]]

\* getStudentFromPool: returns {student, pool after the call}; index is 0-based
\* as in the source, pool.students is read at index + 1.
getStudentFromPool(pool, leftBranch) ==
  IF PoolExhausted(pool) THEN [student |-> 0, pool |-> pool]
  ELSE
    LET lo == pool.index
        hi == Min(pool.index + LookAhead, Len(pool.students)) - 1
        differing == { i \in lo..hi : students[pool.students[i + 1]].branch # leftBranch }
    IN IF leftBranch # "" /\ differing # {}
       THEN LET i == CHOOSE k \in differing : \A m \in differing : k <= m
            IN [student |-> pool.students[i + 1],
                pool |-> [students |-> SwapSeq(pool.students, pool.index + 1, i + 1),
                          index |-> pool.index + 1]]
       ELSE [student |-> pool.students[pool.index + 1],
             pool |-> [pool EXCEPT !.index = pool.index + 1]]

-----------------------------------------------------------------------------
(* Selection function *)

\* Tries the pools named by order, first to last; the first pool that is not
\* exhausted yields the student (the chain of early returns).
RECURSIVE TryPools(_, _, _)
TryPools(ps, order, leftBranch) ==
  IF order = <<>> THEN [student |-> 0, pools |-> ps, key |-> ""]
  ELSE LET r == getStudentFromPool(ps[Head(order)], leftBranch)
       IN IF r.student # 0
          THEN [student |-> r.student,
                pools |-> [ps EXCEPT ![Head(order)] = r.pool],
                key |-> Head(order)]
          ELSE TryPools(ps, Tail(order), leftBranch)

\* Faulty variant: the lock binds CSE students only, non-CSE come from any year.
LockedOrderCseOnly(yearLock, applyAlternation, lastCSE) ==
  IF applyAlternation /\ lastCSE
  THEN <<"Year1-NonCSE", "Year2-NonCSE", CsePoolKey(yearLock)>>
  ELSE <<CsePoolKey(yearLock), "Year1-NonCSE", "Year2-NonCSE">>

\* Faulty variant: CSE is always tried first, whatever was placed last.
LockedOrderCseFirst(yearLock, applyAlternation, lastCSE) ==
  <<CsePoolKey(yearLock), NonCsePoolKey(yearLock)>>

\* Faulty variant: after the locked year's pools the other year's are tried.
LockedOrderThenOtherYear(yearLock, applyAlternation, lastCSE) ==
  (IF lastCSE
   THEN <<NonCsePoolKey(yearLock), CsePoolKey(yearLock)>>
   ELSE <<CsePoolKey(yearLock), NonCsePoolKey(yearLock)>>)
    \o <<CsePoolKey(3 - yearLock), NonCsePoolKey(3 - yearLock)>>

\* Pools tried, in order, in a room locked to yearLock.
LockedOrder(yearLock, applyAlternation, lastCSE) ==
  IF applyAlternation
  THEN IF lastCSE
       THEN <<NonCsePoolKey(yearLock), CsePoolKey(yearLock)>>
       ELSE <<CsePoolKey(yearLock), NonCsePoolKey(yearLock)>>
  ELSE <<CsePoolKey(yearLock), NonCsePoolKey(yearLock)>>

\* Faulty variant: both pools of year 1 are tried before any pool of year 2.
UnlockedOrderYearFirst(applyAlternation, lastCSE) ==
  IF lastCSE
  THEN <<"Year1-NonCSE", "Year2-NonCSE">>
  ELSE <<"Year1-CSE", "Year1-NonCSE", "Year2-CSE", "Year2-NonCSE">>

\* Pools tried, in order, in a room with no year lock yet.
UnlockedOrder(applyAlternation, lastCSE) ==
  IF applyAlternation
  THEN IF ~lastCSE
       THEN <<"Year1-CSE", "Year2-CSE", "Year1-NonCSE", "Year2-NonCSE">>
       ELSE <<"Year1-NonCSE", "Year2-NonCSE">>
  ELSE <<"Year1-CSE", "Year1-NonCSE", "Year2-CSE", "Year2-NonCSE">>

\* Faulty variant: the lock is always set to year 1.
KeyYearAlwaysOne(key) == 1

KeyYear(key) == IF key \in {"Year1-CSE", "Year1-NonCSE"} THEN 1 ELSE 2

\* getNextStudentWithStrictRules: {student or 0, pools after, lock of the room after}.
getNextStudentWithStrictRules(ps, yearLock, applyAlternation, lastCSE, leftBranch) ==
  IF yearLock # 0
  THEN LET r == TryPools(ps, LockedOrder(yearLock, applyAlternation, lastCSE), leftBranch)
       IN [student |-> r.student, pools |-> r.pools, lock |-> yearLock]
  ELSE LET r == TryPools(ps, UnlockedOrder(applyAlternation, lastCSE), leftBranch)
       IN [student |-> r.student, pools |-> r.pools,
           lock |-> IF r.student # 0 THEN KeyYear(r.key) ELSE yearLock]

-----------------------------------------------------------------------------
(* State machine *)

Init ==
  /\ examOk \in BOOLEAN
  /\ students = <<>>
  /\ rooms = <<>>
  /\ pc = "request"
  /\ studentsToSeat = <<>>
  /\ unassignedStudents = <<>>
  /\ studentsPerRoom = <<>>
  /\ pools = [k \in PoolKeys |-> [students |-> <<>>, index |-> 0]]
  /\ roomYearLock = <<>>
  /\ roomIdx = 0
  /\ layout = <<>>
  /\ seatsToFill = {}
  /\ pos = 0
  /\ studentsPlaced = 0
  /\ lastWasCSE = FALSE
  /\ roomSeatingData = <<>>
  /\ seatings = <<>>
  /\ response = 0
  /\ errorMessage = ""
  /\ users = <<>>
  /\ reg = [r \in Requests |-> IdleRequest]

engineVars == <<studentsToSeat, unassignedStudents, studentsPerRoom, pools,
                roomYearLock, roomIdx, layout, seatsToFill, pos, studentsPlaced,
                lastWasCSE, roomSeatingData>>

\* Route: examName or examDate missing -> 400, generateSeating is not called.
RejectRequest ==
  /\ pc = "request"
  /\ ~examOk
  /\ response' = 400
  /\ errorMessage' = ""
  /\ pc' = "responded"
  /\ UNCHANGED <<examOk, students, rooms, seatings>>
  /\ UNCHANGED engineVars
  /\ UNCHANGED authVars

\* The route's catch block: status 500 with error.message.
RouteCatch(message) ==
  /\ response' = 500
  /\ errorMessage' = message
  /\ pc' = "responded"
  /\ UNCHANGED <<examOk, seatings>>
  /\ UNCHANGED authVars

\* Faulty variant: the check on the fetched students is missing.
NoStudentsUnchecked(st) == FALSE

\* !students.length
NoStudents(st) == Len(st) = 0

\* !rooms.length
NoRooms(rs) == Len(rs) = 0

\* Student.find(...).sort(...) returns no student: generateSeating throws.
ThrowNoStudents ==
  /\ pc = "request"
  /\ examOk
  /\ \E st \in Rosters :
       /\ NoStudents(st)
       /\ students' = st
  /\ RouteCatch("No students found for selected classes.")
  /\ UNCHANGED rooms
  /\ UNCHANGED engineVars

\* Student.find(...).sort(...) returns some list of the domain, not empty.
FetchStudentsFrom(domain) ==
  /\ pc = "request"
  /\ examOk
  /\ \E st \in domain :
       /\ ~NoStudents(st)
       /\ students' = st
  /\ pc' = "students"
  /\ UNCHANGED <<examOk, rooms, seatings, response, errorMessage>>
  /\ UNCHANGED engineVars
  /\ UNCHANGED authVars

\* Student.find(...).sort(...) returns the students of the selected classes.
FetchStudents == FetchStudentsFrom(Rosters)

\* Room.find(...) returns no room: generateSeating throws.
ThrowNoRooms ==
  /\ pc = "students"
  /\ \E fetched \in Selections(RoomDB) :
       /\ NoRooms(fetched)
       /\ rooms' = fetched
  /\ RouteCatch("No rooms found.")
  /\ UNCHANGED students
  /\ UNCHANGED engineVars

\* Room.find(...) returns some list of the domain, not empty.
FetchRoomsFrom(domain) ==
  /\ pc = "students"
  /\ \E fetched \in domain :
       /\ ~NoRooms(fetched)
       /\ rooms' = fetched
  /\ pc' = "rooms"
  /\ UNCHANGED <<examOk, students, seatings, response, errorMessage>>
  /\ UNCHANGED engineVars
  /\ UNCHANGED authVars

\* Room.find(...) returns the selected rooms, in the order the store yields them.
FetchRooms == FetchRoomsFrom(Selections(RoomDB))

\* Faulty variant: the selected cells are carried over from the previous room.
BeginRoomKeepSeats(i, rs, perRoom) ==
  /\ roomIdx' = i
  /\ layout' = EmptyLayout(rs[i])
  /\ seatsToFill' = seatsToFill
  /\ pos' = 0
  /\ studentsPlaced' = 0
  /\ lastWasCSE' = FALSE

\* Faulty variant: the alternation flag is carried over from the previous room.
BeginRoomKeepFlag(i, rs, perRoom) ==
  /\ roomIdx' = i
  /\ layout' = EmptyLayout(rs[i])
  /\ seatsToFill' = calculateSeatPositions(RoomRows(rs[i]), RoomCols(rs[i]), perRoom[i])
  /\ pos' = 0
  /\ studentsPlaced' = 0
  /\ lastWasCSE' = lastWasCSE

\* Local state of the room loop at the start of room i.
BeginRoom(i, rs, perRoom) ==
  /\ roomIdx' = i
  /\ layout' = EmptyLayout(rs[i])
  /\ seatsToFill' = calculateSeatPositions(RoomRows(rs[i]), RoomCols(rs[i]), perRoom[i])
  /\ pos' = 0
  /\ studentsPlaced' = 0
  /\ lastWasCSE' = FALSE

\* generateRoomLayoutsWithRules throws 'No students available for seating'
\* (no group key: nothing is left to seat after the overflow split).
ThrowNoStudentsAvailable ==
  /\ pc = "rooms"
  /\ LET sorted == SortRooms(rooms)
         toSeat == SeatSlice(Len(students), TotalCapacity(sorted))
     IN /\ GroupKeys(students, toSeat) = {}
        /\ rooms' = sorted
        /\ studentsToSeat' = toSeat
        /\ unassignedStudents' = UnassignedSlice(Len(students), TotalCapacity(sorted))
  /\ RouteCatch("No students available for seating")
  /\ UNCHANGED <<students, studentsPerRoom, pools, roomYearLock, roomIdx, layout,
                 seatsToFill, pos, studentsPlaced, lastWasCSE, roomSeatingData>>

\* generateSeating from the room sort up to the first room of
\* generateRoomLayoutsWithRules: sort the rooms, split off the overflow, shuffle,
\* plan the occupancies, build the pools.
StartEngine ==
  /\ pc = "rooms"
  /\ LET sorted == SortRooms(rooms)
         toSeat == SeatSlice(Len(students), TotalCapacity(sorted))
         perRoom == distributeStudentsAcrossRooms(Len(toSeat), sorted)
     IN /\ GroupKeys(students, toSeat) # {}
        /\ rooms' = sorted
        /\ studentsToSeat' = toSeat
        /\ unassignedStudents' = UnassignedSlice(Len(students), TotalCapacity(sorted))
        /\ studentsPerRoom' = perRoom
        /\ pools' \in ShuffledPools(students, toSeat)
        /\ roomYearLock' = [i \in 1..Len(sorted) |-> 0]
        /\ BeginRoom(1, sorted, perRoom)
  /\ roomSeatingData' = <<>>
  /\ pc' = "fill"
  /\ UNCHANGED <<examOk, students, seatings, response, errorMessage>>
  /\ UNCHANGED authVars

\* The next position the cell loop does not skip: the first selected one from pos on.
HasNextSeat == \E p \in seatsToFill : p >= pos

\* Faulty variant: the cell loop starts over at the first selected position.
NextSeatRestart == CHOOSE p \in seatsToFill : \A q \in seatsToFill : p <= q

\* Faulty variant: every cell is taken, selected or not.
NextSeatAnyCell == pos

NextSeat == CHOOSE p \in seatsToFill : p >= pos /\ \A q \in seatsToFill : q >= pos => p <= q

\* Faulty variant: the nearest filled cell to the left in the row is taken.
LeftBranchNearestFilled(lay, p, cols) ==
  LET before == { q \in DOMAIN lay : q < p /\ q \div cols = p \div cols /\ lay[q] # 0 }
  IN IF before = {} THEN ""
     ELSE students[lay[CHOOSE q \in before : \A m \in before : m <= q]].branch

\* layout[row][col - 1]: the cell to the left in the same row, if any and filled.
LeftBranch(lay, p, cols) ==
  IF p % cols = 0 \/ lay[p - 1] = 0 THEN "" ELSE students[lay[p - 1]].branch

Selection ==
  getNextStudentWithStrictRules(pools, roomYearLock[roomIdx], TRUE, lastWasCSE,
                                LeftBranch(layout, NextSeat, RoomCols(rooms[roomIdx])))

\* The cell loop leaves the room: every cell visited, the occupancy reached, or
\* no student returned.
LoopOver ==
  IF ~HasNextSeat THEN TRUE
  ELSE IF studentsPlaced >= studentsPerRoom[roomIdx] THEN TRUE
  ELSE Selection.student = 0

\* One selected cell: a student is returned and recorded.
FillSeat ==
  /\ pc = "fill"
  /\ ~LoopOver
  /\ LET sel == Selection
     IN /\ layout' = [layout EXCEPT ![NextSeat] = sel.student]
        /\ pools' = sel.pools
        /\ roomYearLock' = [roomYearLock EXCEPT ![roomIdx] = sel.lock]
        /\ lastWasCSE' = (students[sel.student].branch = "CSE")
  /\ studentsPlaced' = studentsPlaced + 1
  /\ pos' = NextSeat + 1
  /\ UNCHANGED <<examOk, students, rooms, pc, studentsToSeat, unassignedStudents,
                 studentsPerRoom, roomIdx, seatsToFill, roomSeatingData, seatings,
                 response, errorMessage>>
  /\ UNCHANGED authVars

RoomEntry == [roomId |-> rooms[roomIdx].id, roomName |-> rooms[roomIdx].name,
              layout |-> layout]

\* Faulty variant: after a room the engine returns without the later rooms.
FinishRoomReturns ==
  /\ pc = "fill"
  /\ LoopOver
  /\ roomIdx < Len(rooms)
  /\ roomSeatingData' = Append(roomSeatingData, RoomEntry)
  /\ pc' = "save"
  /\ UNCHANGED <<examOk, students, rooms, studentsToSeat, unassignedStudents,
                 studentsPerRoom, pools, roomYearLock, roomIdx, layout, seatsToFill,
                 pos, studentsPlaced, lastWasCSE, seatings, response, errorMessage>>
  /\ UNCHANGED authVars

\* The cell loop of a room is over: push the room, go on with the next one.
FinishRoom ==
  /\ pc = "fill"
  /\ LoopOver
  /\ roomIdx < Len(rooms)
  /\ roomSeatingData' = Append(roomSeatingData, RoomEntry)
  /\ BeginRoom(roomIdx + 1, rooms, studentsPerRoom)
  /\ UNCHANGED <<examOk, students, rooms, pc, studentsToSeat, unassignedStudents,
                 studentsPerRoom, pools, roomYearLock, seatings, response,
                 errorMessage>>
  /\ UNCHANGED authVars

\* The last room is over: generateRoomLayoutsWithRules returns.
FinishLastRoom ==
  /\ pc = "fill"
  /\ LoopOver
  /\ roomIdx = Len(rooms)
  /\ roomSeatingData' = Append(roomSeatingData, RoomEntry)
  /\ pc' = "save"
  /\ UNCHANGED <<examOk, students, rooms, studentsToSeat, unassignedStudents,
                 studentsPerRoom, pools, roomYearLock, roomIdx, layout, seatsToFill,
                 pos, studentsPlaced, lastWasCSE, seatings, response, errorMessage>>
  /\ UNCHANGED authVars

\* new Seating(...).save(), return; route -> 201.
SaveSeating ==
  /\ pc = "save"
  /\ seatings' = Append(seatings,
                        [usedRooms |-> [i \in DOMAIN rooms |-> rooms[i].id],
                         rooms |-> roomSeatingData,
                         unassignedCount |-> Len(unassignedStudents),
                         unassignedStudents |-> unassignedStudents])
  /\ response' = 201
  /\ pc' = "responded"
  /\ UNCHANGED <<examOk, students, rooms, errorMessage>>
  /\ UNCHANGED engineVars
  /\ UNCHANGED authVars

Next ==
  \/ RejectRequest
  \/ ThrowNoStudents
  \/ FetchStudents
  \/ ThrowNoRooms
  \/ FetchRooms
  \/ ThrowNoStudentsAvailable
  \/ StartEngine
  \/ FillSeat
  \/ FinishRoom
  \/ FinishLastRoom
  \/ SaveSeating

Spec == Init /\ [][Next]_vars

\* The room loop is synchronous code: once entered it runs on until it returns.
FairSpec == Spec /\ WF_vars(FillSeat) /\ WF_vars(FinishRoom) /\ WF_vars(FinishLastRoom)

\* The hall scenario: a well-formed request on the ten-seat room.
HallInit == Init /\ examOk

HallFetchStudents == FetchStudentsFrom(HallRosters)

HallFetchRooms == FetchRoomsFrom(HallRoomLists)

HallNext ==
  \/ HallFetchStudents
  \/ HallFetchRooms
  \/ StartEngine
  \/ FillSeat
  \/ FinishRoom
  \/ FinishLastRoom
  \/ SaveSeating

HallSpec == HallInit /\ [][HallNext]_vars

\* The planning scenario: the capacity planner on its own.  The rooms are
\* sorted and the overflow is split off as generateSeating does; then the
\* occupancies are planned and the cells of each room are selected, in room order.
PlanRoomLists ==
  { SortRooms(sel) : sel \in { x \in Selections(PlanRoomDB) : Len(x) \in 1..MaxPlanRooms } }

PlanInit ==
  /\ examOk = TRUE
  /\ \E n \in 1..MaxPlanStudents : students = [i \in 1..n |-> PlanStudent]
  /\ rooms \in PlanRoomLists
  /\ pc = "plan"
  /\ studentsToSeat = SeatSlice(Len(students), TotalCapacity(rooms))
  /\ unassignedStudents = UnassignedSlice(Len(students), TotalCapacity(rooms))
  /\ studentsPerRoom = <<>>
  /\ pools = [k \in PoolKeys |-> [students |-> <<>>, index |-> 0]]
  /\ roomYearLock = <<>>
  /\ roomIdx = 0
  /\ layout = <<>>
  /\ seatsToFill = {}
  /\ pos = 0
  /\ studentsPlaced = 0
  /\ lastWasCSE = FALSE
  /\ roomSeatingData = <<>>
  /\ seatings = <<>>
  /\ response = 0
  /\ errorMessage = ""
  /\ users = <<>>
  /\ reg = [r \in Requests |-> IdleRequest]

\* const studentsPerRoom = distributeStudentsAcrossRooms(totalStudents, rooms)
PlanOccupancies ==
  /\ pc = "plan"
  /\ studentsPerRoom' = distributeStudentsAcrossRooms(Len(studentsToSeat), rooms)
  /\ pc' = "planned"
  /\ UNCHANGED <<examOk, students, rooms, studentsToSeat, unassignedStudents, pools,
                 roomYearLock, roomIdx, layout, seatsToFill, pos, studentsPlaced,
                 lastWasCSE, roomSeatingData, seatings, response, errorMessage>>
  /\ UNCHANGED authVars

\* The head of the room loop for the next room: grid and seatsToFill.
PlanSeats ==
  /\ pc = "planned"
  /\ roomIdx < Len(rooms)
  /\ BeginRoom(roomIdx + 1, rooms, studentsPerRoom)
  /\ UNCHANGED <<examOk, students, rooms, pc, studentsToSeat, unassignedStudents,
                 studentsPerRoom, pools, roomYearLock, roomSeatingData, seatings,
                 response, errorMessage>>
  /\ UNCHANGED authVars

PlanNext ==
  \/ PlanOccupancies
  \/ PlanSeats

PlanSpec == PlanInit /\ [][PlanNext]_vars

-----------------------------------------------------------------------------
(* POST /api/auth/register *)

seatingVars == <<examOk, students, rooms, pc, studentsToSeat, unassignedStudents,
                 studentsPerRoom, pools, roomYearLock, roomIdx, layout, seatsToFill,
                 pos, studentsPlaced, lastWasCSE, roomSeatingData, seatings, response,
                 errorMessage>>

\* await User.findOne({ email }) finds a user.
EmailTaken(email) == \E i \in DOMAIN users : users[i].email = email

\* The request answers with a status and is over.
RegRespond(r, status) ==
  reg' = [reg EXCEPT ![r].pc = "done", ![r].status = status]

\* A request arrives without name, email or password: 400.
RegInvalid(r) ==
  /\ reg[r].pc = "idle"
  /\ RegRespond(r, 400)
  /\ UNCHANGED users
  /\ UNCHANGED seatingVars

\* A request arrives with name, email and password, with or without the right
\* setup secret; it awaits User.countDocuments().
RegReceive(r) ==
  /\ reg[r].pc = "idle"
  /\ \E email \in Emails, ok \in BOOLEAN :
       reg' = [reg EXCEPT ![r].pc = "count", ![r].email = email, ![r].secretOk = ok]
  /\ UNCHANGED users
  /\ UNCHANGED seatingVars

\* countDocuments() resolves; setupSecret differs from ADMIN_SETUP_SECRET: 403.
RegForbidden(r) ==
  /\ reg[r].pc = "count"
  /\ ~reg[r].secretOk
  /\ reg' = [reg EXCEPT ![r].pc = "done", ![r].status = 403,
                         ![r].userCount = Len(users)]
  /\ UNCHANGED users
  /\ UNCHANGED seatingVars

\* countDocuments() resolves, the secret is right; it awaits User.findOne({ email }).
RegCounted(r) ==
  /\ reg[r].pc = "count"
  /\ reg[r].secretOk
  /\ reg' = [reg EXCEPT ![r].pc = "find", ![r].userCount = Len(users)]
  /\ UNCHANGED users
  /\ UNCHANGED seatingVars

\* findOne resolves with a user: 400.
RegDuplicate(r) ==
  /\ reg[r].pc = "find"
  /\ EmailTaken(reg[r].email)
  /\ RegRespond(r, 400)
  /\ UNCHANGED users
  /\ UNCHANGED seatingVars

\* role: userCount === 0 ? 'admin' : 'viewer'
RoleFor(r) == IF reg[r].userCount = 0 THEN "admin" ELSE "viewer"

\* findOne resolves with null: new User({... role ...}); it awaits user.save().
RegNotFound(r) ==
  /\ reg[r].pc = "find"
  /\ ~EmailTaken(reg[r].email)
  /\ reg' = [reg EXCEPT ![r].pc = "save", ![r].role = RoleFor(r)]
  /\ UNCHANGED users
  /\ UNCHANGED seatingVars

\* user.save() hits the unique index on email: the catch block answers 500.
RegSaveRejected(r) ==
  /\ reg[r].pc = "save"
  /\ EmailTaken(reg[r].email)
  /\ RegRespond(r, 500)
  /\ UNCHANGED users
  /\ UNCHANGED seatingVars

\* user.save() stores the user: 201.
RegSaved(r) ==
  /\ reg[r].pc = "save"
  /\ ~EmailTaken(reg[r].email)
  /\ users' = Append(users, [email |-> reg[r].email, role |-> reg[r].role])
  /\ RegRespond(r, 201)
  /\ UNCHANGED seatingVars

RegInit == Init /\ examOk

RegNext ==
  \/ \E r \in Requests : RegInvalid(r)
  \/ \E r \in Requests : RegReceive(r)
  \/ \E r \in Requests : RegForbidden(r)
  \/ \E r \in Requests : RegCounted(r)
  \/ \E r \in Requests : RegDuplicate(r)
  \/ \E r \in Requests : RegNotFound(r)
  \/ \E r \in Requests : RegSaveRejected(r)
  \/ \E r \in Requests : RegSaved(r)

RegisterSpec == RegInit /\ [][RegNext]_vars

-----------------------------------------------------------------------------
(* Properties *)

R1Name == <<"R", "1">>
R2Name == <<"R", "2">>
R10Name == <<"R", "1", "0">>

\* Filled positions of a grid.
Placed(lay) == { p \in DOMAIN lay : lay[p] # 0 }

LastFilled(lay) == CHOOSE p \in Placed(lay) : \A q \in Placed(lay) : q <= p

\* Grids of the run so far: the pushed rooms and the room being filled.
AllLayouts ==
  { roomSeatingData[i].layout : i \in DOMAIN roomSeatingData }
    \cup (IF pc = "fill" THEN {layout} ELSE {})

\* Number of non-null cells over the rooms of a result.
PlacedCount(rsd) == SeqSum([i \in DOMAIN rsd |-> Cardinality(Placed(rsd[i].layout))])

Succeeded == pc = "responded" /\ response = 201

\* C1: in every room grid, finished or being filled, all non-null cells carry
\* the same year: no grid holds both a year-1 and a year-2 student.
OneYearPerRoom ==
  \A lay \in AllLayouts : \A p, q \in Placed(lay) :
    students[lay[p]].year = students[lay[q]].year

\* C1 witness: a finished request in which a room holds at least two students
\* although students of year 1 and of year 2 were both handed to the engine.
OneYearPerRoomWitness ==
  /\ Succeeded
  /\ \E i \in DOMAIN roomSeatingData : Cardinality(Placed(roomSeatingData[i].layout)) >= 2
  /\ \E a, b \in Range(studentsToSeat) : students[a].year = 1 /\ students[b].year = 2

\* C2 (as claimed; refuted in the hall scenario): whenever generateSeating returns, the non-null cells of all
\* room layouts plus the unassigned entries number the students fetched.
StudentsConserved ==
  Succeeded =>
    PlacedCount(seatings[1].rooms) + Len(seatings[1].unassignedStudents) = Len(students)

\* C3 (as claimed; refuted in the hall scenario): when the students exceed the total capacity of the selected
\* rooms, exactly totalCapacity students are placed over all room grids.
OverflowFillsEverySeat ==
  (Succeeded /\ Len(students) > TotalCapacity(rooms)) =>
    PlacedCount(seatings[1].rooms) = TotalCapacity(rooms)

\* C4: after the overflow split the students handed to the engine are the first
\* min(N, totalCapacity) of the register-number order, the unassigned ones are
\* the rest in the same order, their number is max(0, N - totalCapacity), and
\* the saved document records exactly them.
UnassignedIsSortedSuffix ==
  LET n == Len(students)
      cap == TotalCapacity(rooms)
      kept == Min(n, cap)
  IN /\ pc \in {"fill", "save"} \/ Succeeded =>
          /\ studentsToSeat = [i \in 1..kept |-> i]
          /\ unassignedStudents = [i \in 1..(n - kept) |-> kept + i]
          /\ Len(unassignedStudents) = Max(0, n - cap)
          /\ Range(studentsToSeat) \cap Range(unassignedStudents) = {}
          /\ Range(studentsToSeat) \cup Range(unassignedStudents) = 1..n
     /\ Succeeded =>
          /\ seatings[1].unassignedCount = Max(0, n - cap)
          /\ seatings[1].unassignedStudents = [i \in 1..(n - kept) |-> kept + i]

\* C4 witness: a saved seating with both seated and unassigned students.
UnassignedIsSortedSuffixWitness ==
  /\ Succeeded
  /\ Len(students) > TotalCapacity(rooms)
  /\ seatings[1].unassignedCount >= 2
  /\ studentsToSeat # <<>>

\* C5 (as claimed; refuted in the hall scenario): when the number of students equals the total capacity of the
\* selected rooms, nobody is unassigned and every cell of every grid is filled.
ExactFitFillsEveryCell ==
  (Succeeded /\ Len(students) = TotalCapacity(rooms)) =>
    /\ seatings[1].unassignedStudents = <<>>
    /\ \A i \in DOMAIN seatings[1].rooms :
         \A p \in DOMAIN seatings[1].rooms[i].layout : seatings[1].rooms[i].layout[p] # 0

\* C6: in a room's fill order a CSE student is placed right after another CSE
\* student only if the room is locked to a year whose non-CSE pool was exhausted
\* when that student was selected.
AlternationUnlessExhausted ==
  [][ (pc = "fill" /\ studentsPlaced' = studentsPlaced + 1 /\ Placed(layout) # {}) =>
        LET prev == layout[LastFilled(layout)]
            new == layout'[LastFilled(layout')]
            lock == roomYearLock[roomIdx]
        IN (students[prev].branch = "CSE" /\ students[new].branch = "CSE") =>
             /\ lock \in {1, 2}
             /\ pools[NonCsePoolKey(lock)].index >= Len(pools[NonCsePoolKey(lock)].students)
     ]_vars

\* C6 witness: the room being filled holds two CSE students placed one right
\* after the other.
AlternationUnlessExhaustedWitness ==
  /\ pc = "fill"
  /\ \E p, q \in Placed(layout) :
       /\ p < q
       /\ \A r \in Placed(layout) : ~(p < r /\ r < q)
       /\ students[layout[p]].branch = "CSE"
       /\ students[layout[q]].branch = "CSE"

NameNumber(name) == ParseInt(ReplaceR(name))

AscendingNames(names) ==
  \A i, j \in DOMAIN names : i < j => NameNumber(names[i]) <= NameNumber(names[j])

\* C7: the fetched rooms, whatever their order, are put in ascending order of the
\* numeric suffix of their names before the occupancies are planned, and the
\* returned rooms array follows that order: R1, R2, R10 come out as R1, R2, R10.
RoomsSortedNumerically ==
  /\ [][ (pc = "rooms" /\ pc' = "fill") =>
           /\ Len(rooms') = Len(rooms)
           /\ Range(rooms') = Range(rooms)
           /\ AscendingNames([i \in DOMAIN rooms' |-> rooms'[i].name])
           /\ studentsPerRoom' =
                distributeStudentsAcrossRooms(Len(studentsToSeat'), rooms')
           /\ (Range(rooms) = RoomDB =>
                 [i \in DOMAIN rooms' |-> rooms'[i].name] = <<R1Name, R2Name, R10Name>>)
       ]_vars
  /\ [](\A d \in Range(seatings) :
          /\ [i \in DOMAIN d.rooms |-> d.rooms[i].roomName]
               = [i \in DOMAIN rooms |-> rooms[i].name]
          /\ AscendingNames([i \in DOMAIN d.rooms |-> d.rooms[i].roomName])
          /\ (Len(d.rooms) = 3 =>
                [i \in DOMAIN d.rooms |-> d.rooms[i].roomName]
                  = <<R1Name, R2Name, R10Name>>))

\* C7 witness: a saved seating over the three rooms R1, R2 and R10.
RoomsSortedNumericallyWitness ==
  /\ Succeeded
  /\ [i \in DOMAIN seatings[1].rooms |-> seatings[1].rooms[i].roomName]
       = <<R1Name, R2Name, R10Name>>

\* C8: an empty student list, or an empty room list, makes generateSeating throw
\* its input error: no Seating document is saved and the route answers 500 with
\* that error; a seating is produced only from non-empty lists.
EmptyInputRejected ==
  /\ (pc = "responded" /\ examOk /\ students = <<>>) =>
       /\ response = 500
       /\ errorMessage = "No students found for selected classes."
       /\ seatings = <<>>
  /\ (pc = "responded" /\ examOk /\ students # <<>> /\ rooms = <<>>) =>
       /\ response = 500
       /\ errorMessage = "No rooms found."
       /\ seatings = <<>>
  /\ (pc \in {"fill", "save"} \/ response = 201 \/ seatings # <<>>) =>
       (students # <<>> /\ rooms # <<>>)

\* C8 witness: the request was answered after the room query returned no room.
EmptyInputRejectedWitness ==
  /\ pc = "responded"
  /\ examOk
  /\ students # <<>>
  /\ rooms = <<>>
  /\ response = 500

GridMatchesCapacity(room) == RoomRows(room) * RoomCols(room) = room.capacity

\* C9 (as claimed): a room whose capacity differs from rows x cols of the grid
\* derived for it makes generateSeating signal an error instead of a layout.
GridMismatchRejected ==
  (pc = "responded" /\ examOk /\ \E i \in DOMAIN rooms : ~GridMatchesCapacity(rooms[i])) =>
    (response = 500 /\ seatings = <<>>)

\* C10 (as claimed): for every non-empty student list and non-empty room list
\* generateSeating returns without throwing, with one layout entry per room.
NonEmptyInputSucceeds ==
  (pc = "responded" /\ examOk /\ students # <<>> /\ rooms # <<>>) =>
    /\ response = 201
    /\ Len(seatings) = 1
    /\ Len(seatings[1].rooms) = Len(rooms)

\* Pools a selection call tries, first to last, in the current state.
PoolsTried ==
  IF roomYearLock[roomIdx] # 0
  THEN LockedOrder(roomYearLock[roomIdx], TRUE, lastWasCSE)
  ELSE UnlockedOrder(TRUE, lastWasCSE)

\* C11: once the room loop has started the engine reaches its return: no step
\* of the loop throws, the rooms are taken one after the other, inside a room
\* the cell position only moves forward (a cell is visited at most once, and
\* was empty when filled), a selection tries at most four pools, and the loop
\* always ends with the return of the layouts.
EngineTerminates ==
  /\ [][ pc = "fill" =>
           /\ pc' \in {"fill", "save"}
           /\ response' = 0
           /\ roomIdx' \in {roomIdx, roomIdx + 1}
           /\ (pc' = "fill" /\ roomIdx' = roomIdx) =>
                 /\ pos' > pos
                 /\ pos' <= RoomRows(rooms[roomIdx]) * RoomCols(rooms[roomIdx])
                 /\ layout[pos' - 1] = 0
                 /\ layout'[pos' - 1] # 0
                 /\ \A p \in DOMAIN layout : p # pos' - 1 => layout'[p] = layout[p]
       ]_vars
  /\ [](pc = "fill" => Len(PoolsTried) <= 4)
  /\ (pc = "fill") ~> (pc = "save")

\* C11 witness: the engine has returned although a room of a two-room run got
\* fewer students than its target occupancy (the constraints could not be met).
EngineTerminatesWitness ==
  /\ pc = "save"
  /\ Len(rooms) >= 2
  /\ \E i \in DOMAIN roomSeatingData :
       Cardinality(Placed(roomSeatingData[i].layout)) < studentsPerRoom[i]

\* Cells of the grid of the room at index i.
Cells(i) == 0..(RoomRows(rooms[i]) * RoomCols(rooms[i]) - 1)

\* The room whose cells have just been selected, in the planning scenario.
PlannedRoom == pc = "planned" /\ roomIdx >= 1

\* Cells of the planned room that are not selected: its structural gaps.
Gaps == Cells(roomIdx) \ seatsToFill

\* C12: for the 45-seat room (5 rows of 9) with a target occupancy of 40, the
\* cells not selected for filling number exactly 5, and no two of them are
\* neighbours in the same row.
GapScenario45 ==
  (PlannedRoom /\ rooms[roomIdx].type = "45" /\ studentsPerRoom[roomIdx] = 40) =>
    /\ RoomRows(rooms[roomIdx]) = 5
    /\ RoomCols(rooms[roomIdx]) = 9
    /\ Cardinality(seatsToFill) = 40
    /\ Cardinality(Gaps) = 5
    /\ \A g, h \in Gaps :
         ~(h = g + 1 /\ g \div RoomCols(rooms[roomIdx]) = h \div RoomCols(rooms[roomIdx]))

\* C12 witness: the 45-seat room has been planned for 40 students.
GapScenario45Witness ==
  /\ PlannedRoom
  /\ rooms[roomIdx].type = "45"
  /\ studentsPerRoom[roomIdx] = 40
  /\ Cardinality(Gaps) = 5

PoolsPartitionStudents ==
  (pc = "fill" /\ \A k \in PoolKeys : pools[k].index = 0) =>
    /\ \A id \in Range(studentsToSeat) :
         Cardinality({ k \in PoolKeys : id \in Range(pools[k].students) }) = 1
    /\ UNION { Range(pools[k].students) : k \in PoolKeys } = Range(studentsToSeat)

\* C16: the lock of a room is unset until the first placement in the room,
\* that placement sets it to the year of the placed student, no later step
\* changes it, a step that places nobody leaves every lock as it is, and no
\* step touches the lock of another room.
YearLockLifecycle ==
  /\ [][ pc = "fill" =>
           /\ DOMAIN roomYearLock' = DOMAIN roomYearLock
           /\ \A j \in DOMAIN roomYearLock : j # roomIdx => roomYearLock'[j] = roomYearLock[j]
           /\ roomYearLock[roomIdx] # 0 => roomYearLock'[roomIdx] = roomYearLock[roomIdx]
           /\ (roomIdx' = roomIdx /\ studentsPlaced' = studentsPlaced + 1) =>
                 roomYearLock'[roomIdx] = students[layout'[pos' - 1]].year
           /\ ~(roomIdx' = roomIdx /\ studentsPlaced' = studentsPlaced + 1) =>
                 roomYearLock' = roomYearLock
       ]_vars
  /\ [](pc \in {"fill", "save"} =>
          /\ \A j \in DOMAIN roomSeatingData :
               (roomYearLock[j] = 0) = (Placed(roomSeatingData[j].layout) = {})
          /\ pc = "fill" => (roomYearLock[roomIdx] = 0) = (Placed(layout) = {})
          /\ \A j \in DOMAIN roomYearLock : j > roomIdx => roomYearLock[j] = 0)

\* C16 witness: the engine has returned with one room locked to year 2, one
\* room locked to year 1 and one room whose lock was never set.
YearLockLifecycleWitness ==
  /\ pc = "save"
  /\ \E i, j, k \in DOMAIN roomYearLock :
       roomYearLock[i] = 2 /\ roomYearLock[j] = 1 /\ roomYearLock[k] = 0

\* C17 (as claimed): in no room do two students of the same branch sit in
\* cells that are neighbours in a row (left, right) or in a column (front, back).
NoSameBranchAdjacent ==
  \A i \in DOMAIN roomSeatingData :
    LET lay == roomSeatingData[i].layout
        cols == RoomCols(rooms[i])
    IN \A p, q \in Placed(lay) :
         ((q = p + 1 /\ p \div cols = q \div cols) \/ q = p + cols) =>
           students[lay[p]].branch # students[lay[q]].branch

\* C18 (as claimed): whatever the order and interleaving of the registration
\* requests, the first user stored has the admin role and every later one has
\* viewer: the collection never holds more than one admin.
FirstUserIsOnlyAdmin ==
  /\ \A i \in DOMAIN users : users[i].role = (IF i = 1 THEN "admin" ELSE "viewer")
  /\ Cardinality({ i \in DOMAIN users : users[i].role = "admin" }) <= 1

\* C19 (as claimed): when the students exceed the seats of the selected rooms,
\* generation creates ceil(N / totalSeats) sessions and leaves nobody unassigned.
MultiSessionSeatsEveryone ==
  (Succeeded /\ TotalCapacity(rooms) > 0 /\ Len(students) > TotalCapacity(rooms)) =>
    /\ Len(seatings) =
         (Len(students) + TotalCapacity(rooms) - 1) \div TotalCapacity(rooms)
    /\ \A k \in DOMAIN seatings : seatings[k].unassignedCount = 0

\* C20 (as claimed): a room with target t >= capacity has every cell selected;
\* with 1 <= t < capacity the selected cells are exactly the indices
\* floor(i * capacity / t), i = 0..t-1: t distinct cells of the grid, leaving
\* (cells - t) gaps.
GapPolicyExact ==
  PlannedRoom =>
    LET t == studentsPerRoom[roomIdx]
        capacity == rooms[roomIdx].capacity
    IN /\ t >= capacity => seatsToFill = Cells(roomIdx)
       /\ (1 <= t /\ t < capacity) =>
            /\ seatsToFill = { (i * capacity) \div t : i \in 0..(t - 1) }
            /\ Cardinality(seatsToFill) = t
            /\ seatsToFill \subseteq Cells(roomIdx)
            /\ Cardinality(Gaps) = Cardinality(Cells(roomIdx)) - t

\* Left-neighbour values a call may receive: none, or a branch.
LeftValues == {""} \cup AllBranches

\* The unconsumed students of a pool, front first.
Remaining(pool) == SubSeq(pool.students, pool.index + 1, Len(pool.students))

\* C21: a call of getStudentFromPool on a pool that is not exhausted, with left
\* branch B, returns the first of the next min(5, remaining) unconsumed students
\* whose branch differs from B if there is one, and the front unconsumed
\* student otherwise; with no left neighbour it returns the front student.
LeftNeighbourAvoidance ==
  pc = "fill" =>
    \A k \in PoolKeys, B \in LeftValues :
      ~PoolExhausted(pools[k]) =>
        LET rest == Remaining(pools[k])
            window == 1..Min(5, Len(rest))
            other == { j \in window : students[rest[j]].branch # B }
            r == getStudentFromPool(pools[k], B)
        IN IF B # "" /\ other # {}
           THEN /\ r.student \in { rest[j] : j \in other }
                /\ \A j \in other : rest[j] = r.student => \A m \in other : j <= m
           ELSE r.student = rest[1]

\* C21 witness: a pool being consumed holds more than five unconsumed students,
\* the next five all of the branch of the last placed student and a student of
\* another branch behind them.
LeftNeighbourAvoidanceWitness ==
  /\ pc = "fill"
  /\ studentsPlaced >= 1
  /\ \E k \in PoolKeys :
       LET rest == Remaining(pools[k])
       IN /\ pools[k].index >= 1
          /\ Len(rest) > 5
          /\ \A j \in 1..5 : students[rest[j]].branch = "ECE"
          /\ \E j \in 6..Len(rest) : students[rest[j]].branch = "MECH"

\* C22: a call of getStudentFromPool that returns a student advances the cursor
\* of the pool by one, leaves the returned student at the old cursor position
\* and the student displaced from there at the returned student's former
\* position, and changes no other entry; a call on an exhausted pool returns
\* null and changes nothing; a selection changes at most the pool it drew from.
DequeuePostState ==
  pc = "fill" =>
    /\ \A k \in PoolKeys, B \in LeftValues :
         LET pool == pools[k]
             r == getStudentFromPool(pool, B)
         IN IF PoolExhausted(pool) THEN r.student = 0 /\ r.pool = pool
            ELSE /\ r.student # 0
                 /\ r.pool.index = pool.index + 1
                 /\ Len(r.pool.students) = Len(pool.students)
                 /\ r.pool.students[pool.index + 1] = r.student
                 /\ \E j \in (pool.index + 1)..Len(pool.students) :
                      /\ pool.students[j] = r.student
                      /\ r.pool.students[j] = pool.students[pool.index + 1]
                      /\ \A m \in DOMAIN pool.students :
                           (m # j /\ m # pool.index + 1) =>
                             r.pool.students[m] = pool.students[m]
    /\ \A B \in LeftValues :
         LET sel == getNextStudentWithStrictRules(pools, roomYearLock[roomIdx], TRUE,
                                                  lastWasCSE, B)
         IN Cardinality({ k \in PoolKeys : sel.pools[k] # pools[k] })
              = (IF sel.student = 0 THEN 0 ELSE 1)

\* C22 witness: a pool whose consumed prefix ends with a student that was
\* swapped to the front: with the branch of the student seated before, the call
\* skips the front student of the pool.
DequeuePostStateWitness ==
  /\ pc = "fill"
  /\ \E k \in PoolKeys :
       LET r == getStudentFromPool(pools[k], "ECE")
       IN /\ ~PoolExhausted(pools[k])
          /\ pools[k].index >= 1
          /\ r.student # pools[k].students[pools[k].index + 1]
          /\ Len(Remaining(pools[k])) >= 3

\* The step is the first placement in the room being filled.
FirstPlacement ==
  pc = "fill" /\ roomIdx' = roomIdx /\ studentsPlaced = 0 /\ studentsPlaced' = 1

\* The pool the step drew a student from.
DrawnFrom(k) == pools'[k].index = pools[k].index + 1

\* C23 (as claimed): the first placement of a room comes from a year-2 pool,
\* locking the room to year 2, only if the year-1 CSE pool and the year-1
\* non-CSE pool are both exhausted.
YearTwoOnlyAfterYearOne ==
  [][ (FirstPlacement /\ roomYearLock'[roomIdx] = 2) =>
        (PoolExhausted(pools["Year1-CSE"]) /\ PoolExhausted(pools["Year1-NonCSE"])) ]_vars

\* C23 (amended): in a room without a lock the pools are tried in the order
\* year-1 CSE, year-2 CSE, year-1 non-CSE, year-2 non-CSE: the first placement
\* comes from a pool only if every pool before it in that order is exhausted,
\* and it locks the room to the year of that pool.
UnlockedFallbackOrder ==
  [][ FirstPlacement =>
        /\ roomYearLock[roomIdx] = 0
        /\ \E k \in PoolKeys : DrawnFrom(k) /\ roomYearLock'[roomIdx] = KeyYear(k)
        /\ DrawnFrom("Year2-CSE") => PoolExhausted(pools["Year1-CSE"])
        /\ DrawnFrom("Year1-NonCSE") =>
              (PoolExhausted(pools["Year1-CSE"]) /\ PoolExhausted(pools["Year2-CSE"]))
        /\ DrawnFrom("Year2-NonCSE") =>
              /\ PoolExhausted(pools["Year1-CSE"])
              /\ PoolExhausted(pools["Year2-CSE"])
              /\ PoolExhausted(pools["Year1-NonCSE"])
    ]_vars

\* C23 witness: a room has just been locked to year 2 by a CSE student while
\* the year-1 non-CSE pool still holds a student.
UnlockedFallbackOrderWitness ==
  /\ pc = "fill"
  /\ studentsPlaced = 1
  /\ roomYearLock[roomIdx] = 2
  /\ \E p \in Placed(layout) : students[layout[p]].branch = "CSE"
  /\ ~PoolExhausted(pools["Year1-NonCSE"])

\* The selection function is called for the next selected cell and returns null.
SelectionFails ==
  /\ pc = "fill"
  /\ HasNextSeat
  /\ studentsPlaced < studentsPerRoom[roomIdx]
  /\ Selection.student = 0

\* C24: in a room locked to year Y the selection returns no student exactly
\* when both pools of year Y are exhausted, whatever the pools of the other
\* year hold; a returned student is of year Y, the pools of the other year and
\* the lock are left as they are.
LockedRoomStarves ==
  /\ []((pc = "fill" /\ roomYearLock[roomIdx] # 0) =>
          LET Y == roomYearLock[roomIdx]
          IN \A B \in LeftValues :
               LET sel == getNextStudentWithStrictRules(pools, Y, TRUE, lastWasCSE, B)
               IN /\ (sel.student = 0) =
                       (PoolExhausted(pools[CsePoolKey(Y)])
                          /\ PoolExhausted(pools[NonCsePoolKey(Y)]))
                  /\ sel.student # 0 => students[sel.student].year = Y
                  /\ sel.pools[CsePoolKey(3 - Y)] = pools[CsePoolKey(3 - Y)]
                  /\ sel.pools[NonCsePoolKey(3 - Y)] = pools[NonCsePoolKey(3 - Y)]
                  /\ sel.lock = Y)
  /\ [][ (pc = "fill" /\ roomYearLock[roomIdx] # 0 /\ roomIdx' = roomIdx) =>
           LET Y == roomYearLock[roomIdx]
           IN /\ pools'[CsePoolKey(3 - Y)] = pools[CsePoolKey(3 - Y)]
              /\ pools'[NonCsePoolKey(3 - Y)] = pools[NonCsePoolKey(3 - Y)]
     ]_vars

\* C24 witness: a selection fails in a locked room whose year is used up while
\* a pool of the other year still holds a student.
LockedRoomStarvesWitness ==
  /\ SelectionFails
  /\ roomYearLock[roomIdx] # 0
  /\ \/ ~PoolExhausted(pools[CsePoolKey(3 - roomYearLock[roomIdx])])
     \/ ~PoolExhausted(pools[NonCsePoolKey(3 - roomYearLock[roomIdx])])

\* C25: when the selection returns no student for a room, the next step emits
\* the room with its grid as it is (no further cell is filled, selected cells
\* stay null) and, unless it was the last room, goes on with the next room on
\* the pools as they are; emitted rooms are never changed, and the result has
\* one entry per room.
ExhaustionEndsRoomOnly ==
  /\ [][ SelectionFails =>
           /\ roomSeatingData' = Append(roomSeatingData,
                                        [roomId |-> rooms[roomIdx].id,
                                         roomName |-> rooms[roomIdx].name,
                                         layout |-> layout])
           /\ pools' = pools
           /\ IF roomIdx < Len(rooms)
              THEN pc' = "fill" /\ roomIdx' = roomIdx + 1 /\ Placed(layout') = {}
              ELSE pc' = "save"
     ]_vars
  /\ [][ (pc = "fill" \/ pc = "save") =>
           \A i \in DOMAIN roomSeatingData :
             i \in DOMAIN roomSeatingData' /\ roomSeatingData'[i] = roomSeatingData[i]
     ]_vars
  /\ [](pc = "save" => Len(roomSeatingData) = Len(rooms))

\* C25 witness: the engine has returned three rooms; in the second the
\* selection failed with selected cells left over, and the third got students.
ExhaustionEndsRoomOnlyWitness ==
  /\ pc = "save"
  /\ Len(roomSeatingData) = 3
  /\ Cardinality(Placed(roomSeatingData[2].layout)) < studentsPerRoom[2]
  /\ Cardinality(Placed(roomSeatingData[2].layout)) >= 1
  /\ Cardinality(Placed(roomSeatingData[3].layout)) >= 1

\* The step places a student in the room being filled.
Placement == pc = "fill" /\ roomIdx' = roomIdx /\ studentsPlaced' = studentsPlaced + 1

\* The cell a placement step fills.
FilledCell == pos' - 1

\* Branch of the nearest filled cell before cell p in its row; "" if there is none.
NearestFilledBranch(p) ==
  LET cols == RoomCols(rooms[roomIdx])
      before == { q \in DOMAIN layout : q < p /\ q \div cols = p \div cols /\ layout[q] # 0 }
  IN IF before = {} THEN ""
     ELSE students[layout[CHOOSE q \in before : \A m \in before : m <= q]].branch

\* Branch of the cell immediately left of cell p; "" in the first column or
\* when that cell is empty.
ImmediateLeftBranch(p) ==
  IF p % RoomCols(rooms[roomIdx]) = 0 THEN ""
  ELSE IF layout[p - 1] = 0 THEN ""
  ELSE students[layout[p - 1]].branch

\* The student and the pools a selection with left branch B yields.
SelectedWith(B) ==
  getNextStudentWithStrictRules(pools, roomYearLock[roomIdx], TRUE, lastWasCSE, B)

\* C26 (as claimed): for every filled cell the branch used for the collision
\* check is that of the nearest previously filled cell of the row, none only
\* when no cell of the row is filled yet.
NearestFilledIsChecked ==
  [][ Placement =>
        /\ layout'[FilledCell] = SelectedWith(NearestFilledBranch(FilledCell)).student
        /\ pools' = SelectedWith(NearestFilledBranch(FilledCell)).pools ]_vars

\* C26 (amended): for every filled cell the branch used for the collision
\* check is that of the cell immediately to its left, and none when the cell
\* is in the first column or the cell to its left is empty (a gap).
ImmediateLeftIsChecked ==
  [][ Placement =>
        /\ layout'[FilledCell] = SelectedWith(ImmediateLeftBranch(FilledCell)).student
        /\ pools' = SelectedWith(ImmediateLeftBranch(FilledCell)).pools ]_vars

\* C26 witness: a student sits right of a gap in a row that has a filled cell
\* before the gap, of the student's own branch.
ImmediateLeftIsCheckedWitness ==
  /\ pc = "fill"
  /\ \E p \in Placed(layout) :
       /\ p % RoomCols(rooms[roomIdx]) # 0
       /\ layout[p - 1] = 0
       /\ p - 2 \in Placed(layout)
       /\ students[layout[p - 2]].branch = students[layout[p]].branch

\* C27: lastWasCSE is false when a room starts, and is otherwise only set by a
\* placement, to whether the placed student is CSE; so the first student of a
\* room is a CSE student whenever a CSE pool of either year holds a student
\* when the room starts.
FirstStudentIsCSE ==
  /\ [][ (pc' = "fill" /\ roomIdx' # roomIdx) => lastWasCSE' = FALSE ]_vars
  /\ [][ Placement => lastWasCSE' = (students[layout'[FilledCell]].branch = "CSE") ]_vars
  /\ [][ (pc = "fill" /\ roomIdx' = roomIdx /\ ~Placement) => lastWasCSE' = lastWasCSE ]_vars
  /\ [][ FirstPlacement =>
           /\ lastWasCSE = FALSE
           /\ (~PoolExhausted(pools["Year1-CSE"]) \/ ~PoolExhausted(pools["Year2-CSE"])) =>
                 students[layout'[FilledCell]].branch = "CSE"
     ]_vars

\* C27 witness: the second room starts with a CSE student right after the
\* first room ended with a CSE student.
FirstStudentIsCSEWitness ==
  /\ pc = "fill"
  /\ roomIdx = 2
  /\ studentsPlaced = 1
  /\ \E p \in Placed(layout) : students[layout[p]].branch = "CSE"
  /\ Placed(roomSeatingData[1].layout) # {}
  /\ students[roomSeatingData[1].layout[LastFilled(roomSeatingData[1].layout)]].branch = "CSE"

\* The grid of room i so far: emitted, or being filled.
GridOf(i) == IF i \in DOMAIN roomSeatingData THEN roomSeatingData[i].layout ELSE layout

\* Rooms that have a grid so far.
RoomsStarted == IF pc \in {"fill", "save"} \/ Succeeded THEN 1..roomIdx ELSE {}

\* C28: at every point of the run the non-null cells of a room number at most
\* its target occupancy, which is at most its declared capacity, and every
\* non-null cell is one that calculateSeatPositions selected for the room.
OccupancyBound ==
  \A i \in RoomsStarted :
    /\ Cardinality(Placed(GridOf(i))) <= studentsPerRoom[i]
    /\ studentsPerRoom[i] <= rooms[i].capacity
    /\ Placed(GridOf(i)) \subseteq
         calculateSeatPositions(RoomRows(rooms[i]), RoomCols(rooms[i]), studentsPerRoom[i])

\* C28 witness: a room with gaps has reached its target of two students.
OccupancyBoundWitness ==
  /\ pc = "fill"
  /\ studentsPerRoom[roomIdx] = 2
  /\ Cardinality(Placed(layout)) = 2
  /\ rooms[roomIdx].capacity > 2

\* Students seated in room i so far.
SeatedIn(i) == { GridOf(i)[p] : p \in Placed(GridOf(i)) }

\* C29: over all rooms of a run each student occupies at most one cell, and no
\* student is both in a grid and in unassignedStudents.
NoStudentSeatedTwice ==
  /\ \A i \in RoomsStarted :
       /\ \A p, q \in Placed(GridOf(i)) : GridOf(i)[p] = GridOf(i)[q] => p = q
       /\ \A j \in RoomsStarted : i # j => SeatedIn(i) \cap SeatedIn(j) = {}
       /\ SeatedIn(i) \cap Range(unassignedStudents) = {}
       /\ SeatedIn(i) \subseteq Range(studentsToSeat)

\* C29 witness: the lookahead has swapped a MECH student forward, next to an
\* ECE student, and at least five students are seated in the room.
NoStudentSeatedTwiceWitness ==
  /\ pc = "fill"
  /\ studentsPlaced >= 5
  /\ \E p \in Placed(layout) :
       /\ p - 1 \in Placed(layout)
       /\ p <= 2
       /\ students[layout[p]].branch = "MECH"
       /\ students[layout[p - 1]].branch = "ECE"

\* C30 (as claimed): whenever the students to seat are at most the total
\* capacity of the rooms, the planned occupancies sum to the number of students.
PlannerTotals ==
  (pc = "planned" /\ Len(studentsToSeat) <= TotalCapacity(rooms)) =>
    SeqSum(studentsPerRoom) = Len(studentsToSeat)

=============================================================================
